---- MODULE Spec2Model ----
(***************************************************************************)
(* Model of mne/annotations.py: the Annotations value object and the       *)
(* helper _combine_annotations that merges two annotation sets.            *)
(*                                                                         *)
(* Representation.                                                         *)
(*  - An array is a record [ndim, data]; a one-dimensional array holds a   *)
(*    sequence, a two-dimensional one a sequence of rows.                  *)
(*  - An element of an onset array is <<"f", v>>, a float holding v ticks  *)
(*    of 1/TicksPerSec second, or <<"o", id>>, a reference to the          *)
(*    Annotations instance heap[id] (an array of dtype object).            *)
(*  - orig_time as stored is None (<<>>) or <<"scalar", t>>, a float POSIX *)
(*    timestamp of t microseconds; as passed to the constructor it may     *)
(*    also be <<"pair", s, us>> or <<"datetime", s>> (s whole seconds).    *)
(*  - heap is the sequence of the Annotations instances created so far; a  *)
(*    reference is an index into it, and 0 is Python's None.               *)
(*  - build is the interpreter and numpy the code runs on: it decides how  *)
(*    np.r_ treats an operand that is not an array and whether a float    *)
(*    and an instance can be ordered.                                      *)
(***************************************************************************)
EXTENDS Integers, Sequences, FiniteSets, TLC

VARIABLES heap, born, build, last

vars == <<heap, born, build, last>>

----------------------------------------------------------------------------
(* Bounds of the model *)

(* Entries of an array passed to the constructor under SpecCons *)
MaxLen == 2

(* Instances on the heap: no call is made once there are this many *)
MaxObjs == 3

(* Entries of a merged set: two larger sets are not merged *)
MaxEntries == 4

----------------------------------------------------------------------------
(* Values *)

None == <<>>

Float(v) == <<"f", v>>

Obj(id) == <<"o", id>>

IsFloat(e) == e[1] = "f"

Arr0(x) == [ndim |-> 0, data |-> x]

Arr1(s) == [ndim |-> 1, data |-> s]

Arr2(rows) == [ndim |-> 2, data |-> rows]

AllFloats(s) == \A i \in DOMAIN s : IsFloat(s[i])

Builds ==
    { [r_wraps |-> FALSE, py |-> 3],
      [r_wraps |-> TRUE,  py |-> 3],
      [r_wraps |-> TRUE,  py |-> 2] }

Sfreqs == {1, 2}

RECURSIVE Lcm(_, _)
Lcm(S, m) ==
    IF \A f \in S : m % f = 0 THEN m ELSE Lcm(S, m + 1)

TicksPerSec == Lcm(Sfreqs, 1)

Secs(t) == Float(t * TicksPerSec)

Micro == 1000000

Raise(kind, site) == [kind |-> kind, site |-> site, ret |-> <<>>]

Return(obj) == [kind |-> "ok", site |-> "", ret |-> <<obj>>]

----------------------------------------------------------------------------
(* Annotations.__init__                                                    *)
(* onset.argsort(axis=0) uses numpy's default kind, which is not a stable  *)
(* sort: Argsort is every permutation that sorts, so the order of entries  *)
(* with equal onsets is open. On Python 3 ordering a float against an      *)
(* instance raises TypeError; Python 2 orders numbers before instances and *)
(* instances among themselves by address (any order).                      *)

NormOrigTime(orig_time) ==
    IF orig_time # None
    THEN IF orig_time[1] = "datetime"
         THEN <<"scalar", orig_time[2] * Micro>>
         ELSE IF orig_time[1] = "pair"
              THEN <<"scalar", orig_time[2] * Micro + orig_time[3]>>
              ELSE <<"scalar", orig_time[2]>>
    ELSE None

Le(x, y) ==
    IF IsFloat(x) /\ IsFloat(y) THEN x[2] <= y[2]
    ELSE IsFloat(x) \/ ~IsFloat(y)

Comparable(s, bld) ==
    bld.py = 2 \/ Len(s) <= 1 \/ AllFloats(s)

RECURSIVE SortingOrders(_, _)
SortingOrders(s, rem) ==
    IF rem = {} THEN { <<>> }
    ELSE LET mins == { i \in rem : \A j \in rem : Le(s[i], s[j]) }
         IN  UNION { { <<i>> \o t : t \in SortingOrders(s, rem \ {i}) } : i \in mins }

ArgsortIdentity(s) == { [i \in 1..Len(s) |-> i] }

Argsort(s) == SortingOrders(s, 1..Len(s))

Take(s, order) == [i \in 1..Len(order) |-> s[order[i]]]

Indexable(onset, duration, description) ==
    /\ Len(onset.data) <= Len(duration.data)
    /\ Len(onset.data) <= Len(description.data)

EqualSizesOnsetDuration(onset, duration, description) ==
    Len(onset.data) = Len(duration.data)

EqualSizesNoCheck(onset, duration, description) == TRUE

EqualSizes(onset, duration, description) ==
    /\ Len(onset.data) = Len(duration.data)
    /\ Len(duration.data) = Len(description.data)

SortedFieldsDescriptionUnpermuted(onset, duration, description, norm) ==
    { [onset       |-> Take(onset.data, order),
       duration    |-> Take(duration.data, order),
       description |-> description.data,
       orig_time   |-> norm] : order \in Argsort(onset.data) }

SortedFields(onset, duration, description, norm) ==
    { [onset       |-> Take(onset.data, order),
       duration    |-> Take(duration.data, order),
       description |-> Take(description.data, order),
       orig_time   |-> norm] : order \in Argsort(onset.data) }

Annotations(onset, duration, description, orig_time, bld) ==
    IF onset.ndim # 1 THEN { Raise("ValueError", "Annotations") }
    ELSE IF duration.ndim # 1 THEN { Raise("ValueError", "Annotations") }
    ELSE IF ~EqualSizes(onset, duration, description)
         THEN { Raise("ValueError", "Annotations") }
    ELSE IF ~Comparable(onset.data, bld) THEN { Raise("TypeError", "argsort") }
    ELSE IF ~Indexable(onset, duration, description)
         THEN { Raise("IndexError", "take") }
    ELSE { Return(o) :
             o \in SortedFields(onset, duration, description, NormOrigTime(orig_time)) }

----------------------------------------------------------------------------
(* _combine_annotations                                                    *)
(* sfreq is a float, so / is true division; times are kept in ticks of     *)
(* 1/TicksPerSec second, a multiple of every sfreq, which makes it exact.  *)
(* np.r_ given an operand that is not an array (the instance of line 75)   *)
(* either fails to concatenate a 0-d array (ValueError) or wraps it into a *)
(* one-element array of objects, depending on the numpy version.           *)

Truthy(ref) == ref # 0

All(refs) == \A i \in DOMAIN refs : Truthy(refs[i])

RECURSIVE Sum(_)
Sum(s) == IF s = <<>> THEN 0 ELSE s[1] + Sum(Tail(s))

ButLast(s) == SubSeq(s, 1, Len(s) - 1)

ShiftAllSegments(last_samps, sfreq) ==
    (Sum(last_samps) * TicksPerSec) \div sfreq

Shift(last_samps, sfreq) ==
    (Sum(ButLast(last_samps)) * TicksPerSec) \div sfreq

AddScalar(s, d) == [i \in DOMAIN s |-> Float(s[i][2] + d)]

SecondOnset(h, ib, last_samps, sfreq) ==
    IF h[ib].orig_time = None
    THEN IF AllFloats(h[ib].onset)
         THEN Return(Arr1(AddScalar(h[ib].onset, Shift(last_samps, sfreq))))
         ELSE Raise("TypeError", "add")
    ELSE Return(Arr0(Obj(ib)))

R_(x, y, bld) ==
    IF y.ndim = 0
    THEN IF bld.r_wraps
         THEN Return(Arr1(x.data \o <<y.data>>))
         ELSE Raise("ValueError", "r_")
    ELSE Return(Arr1(x.data \o y.data))

Result(kind, site, ref, new) ==
    [kind |-> kind, site |-> site, ref |-> ref, new |-> new]

Merge(h, ia, ib, last_samps, sfreq, bld) ==
    LET second == SecondOnset(h, ib, last_samps, sfreq)
    IN  IF second.kind # "ok" THEN { Result(second.kind, second.site, 0, <<>>) }
        ELSE LET onset == R_(Arr1(h[ia].onset), second.ret[1], bld)
             IN  IF onset.kind # "ok"
                 THEN { Result(onset.kind, onset.site, 0, <<>>) }
                 ELSE { IF r.kind = "ok"
                        THEN Result("ok", "", Len(h) + 1, r.ret)
                        ELSE Result(r.kind, r.site, 0, <<>>) :
                        r \in Annotations(onset.ret[1],
                                          Arr1(h[ia].duration \o h[ib].duration),
                                          Arr1(h[ia].description \o h[ib].description),
                                          h[ia].orig_time, bld) }

_combine_no_checks(h, ia, ib, last_samps, sfreq, bld) ==
    IF ia = 0 \/ ib = 0
    THEN { Result("AttributeError", "orig_time", 0, <<>>) }
    ELSE Merge(h, ia, ib, last_samps, sfreq, bld)

_combine_annotations(h, ia, ib, last_samps, sfreq, bld) ==
    IF ~All(<<ia, ib>>) THEN { Result("ok", "", 0, <<>>) }
    ELSE IF ia = 0 THEN { Result("ok", "", ib, <<>>) }
    ELSE IF ib = 0 THEN { Result("ok", "", ia, <<>>) }
    ELSE Merge(h, ia, ib, last_samps, sfreq, bld)

AllocateInPlace(h, ia, new) ==
    IF new = <<>> THEN h ELSE [h EXCEPT ![ia] = new[1]]

Allocate(h, ia, new) == h \o new

----------------------------------------------------------------------------
(* The callers: annotation sets are constructed and combined *)

Recordings ==
    { [onset |-> Arr1(<<>>), duration |-> Arr1(<<>>),
       description |-> Arr1(<<>>), orig_time |-> None],
      [onset |-> Arr1(<<Secs(1)>>), duration |-> Arr1(<<1>>),
       description |-> Arr1(<<"x">>), orig_time |-> None],
      [onset |-> Arr1(<<Secs(1), Secs(0)>>), duration |-> Arr1(<<1, 2>>),
       description |-> Arr1(<<"x", "y">>), orig_time |-> None],
      [onset |-> Arr1(<<Secs(0)>>), duration |-> Arr1(<<2>>),
       description |-> Arr1(<<"z">>), orig_time |-> <<"scalar", 7 * Micro>>],
      [onset |-> Arr1(<<Secs(1), Secs(1)>>), duration |-> Arr1(<<1, 2>>),
       description |-> Arr1(<<"x", "z">>), orig_time |-> <<"pair", 7, 5>>],
      [onset |-> Arr1(<<Secs(1)>>), duration |-> Arr1(<<1>>),
       description |-> Arr1(<<"x", "y">>), orig_time |-> None] }

LastSamps == { <<2>>, <<1, 2>>, <<2, 1>> }

Init ==
    /\ heap = <<>>
    /\ born = <<>>
    /\ build \in Builds
    /\ last = [op |-> "init", fresh |-> TRUE]

(* A call that creates no instance leaves heap, born and build as they    *)
(* were, so the calls that can follow it are those that could be made in  *)
(* its place: a run of the callers is a sequence of creating calls, ended *)
(* by at most one call that creates nothing.                              *)
Created == last.fresh

New(rec) ==
    /\ Created
    /\ Len(heap) < MaxObjs
    /\ \E r \in Annotations(rec.onset, rec.duration, rec.description,
                            rec.orig_time, build) :
         /\ heap' = heap \o r.ret
         /\ born' = born \o r.ret
         /\ last' = [op |-> "new", kind |-> r.kind, fresh |-> r.kind = "ok",
                     ret |-> IF r.kind = "ok" THEN Len(heap) + 1 ELSE 0]
    /\ UNCHANGED build

Combine(ia, ib, last_samps, sfreq) ==
    /\ Created
    /\ Len(heap) < MaxObjs
    /\ (ia # 0 /\ ib # 0) =>
          Len(heap[ia].onset) + Len(heap[ib].onset) <= MaxEntries
    /\ \E out \in _combine_annotations(heap, ia, ib, last_samps, sfreq, build) :
         /\ heap' = Allocate(heap, ia, out.new)
         /\ born' = born \o out.new
         /\ last' = [op |-> "combine", a |-> ia, b |-> ib,
                     last_samps |-> last_samps, sfreq |-> sfreq,
                     kind |-> out.kind, site |-> out.site,
                     fresh |-> out.new # <<>>, ret |-> out.ref]
    /\ UNCHANGED build

Next ==
    \/ \E rec \in Recordings : New(rec)
    \/ \E ia \in 0..Len(heap), ib \in 0..Len(heap),
          last_samps \in LastSamps, sfreq \in Sfreqs :
          Combine(ia, ib, last_samps, sfreq)

Spec == Init /\ [][Next]_vars

----------------------------------------------------------------------------
(* The constructor alone, over every input up to MaxLen entries *)

SeqsUpTo(S, n) == UNION { [1..k -> S] : k \in 0..n }

Times == {0, 1}

DurVals == {1, 2}

Descs == {"x", "y"}

OnsetInputs ==
    { Arr1(s) : s \in SeqsUpTo({ Secs(t) : t \in Times }, MaxLen) }
    \cup { Arr2([i \in 1..n |-> <<Secs(0), Secs(1), Secs(0)>>]) : n \in 1..MaxLen }
    \cup { Arr0(Secs(0)) }

DurationInputs ==
    { Arr1(s) : s \in SeqsUpTo(DurVals, MaxLen) }
    \cup { Arr2([i \in 1..n |-> <<1, 2, 1>>]) : n \in 1..MaxLen }
    \cup { Arr0(1) }

DescriptionInputs == { Arr1(s) : s \in SeqsUpTo(Descs, MaxLen) }

OrigTimeInputs ==
    { None, <<"scalar", 7 * Micro>>, <<"pair", 7, 5>>, <<"datetime", 7>> }

InitCons ==
    /\ heap = <<>>
    /\ born = <<>>
    /\ build \in Builds
    /\ last \in [op : {"call"}, onset : OnsetInputs, duration : DurationInputs,
                 description : DescriptionInputs, orig_time : OrigTimeInputs]

Construct ==
    /\ last.op = "call"
    /\ \E r \in Annotations(last.onset, last.duration, last.description,
                            last.orig_time, build) :
         last' = [op |-> "ret", onset |-> last.onset, duration |-> last.duration,
                  description |-> last.description, orig_time |-> last.orig_time,
                  kind |-> r.kind, site |-> r.site, ret |-> r.ret]
    /\ UNCHANGED <<heap, born, build>>

NextCons == Construct

SpecCons == InitCons /\ [][NextCons]_vars

----------------------------------------------------------------------------
(* Vocabulary of the properties *)

Range(s) == { s[i] : i \in DOMAIN s }

Count(x, s) == Cardinality({ i \in DOMAIN s : s[i] = x })

SameBag(s, t) ==
    /\ Len(s) = Len(t)
    /\ \A x \in Range(s) \cup Range(t) : Count(x, s) = Count(x, t)

NonDecreasing(s) == \A i \in 1..(Len(s) - 1) : Le(s[i], s[i + 1])

Triples(onset, duration, description) ==
    [i \in DOMAIN onset |-> <<onset[i], duration[i], description[i]>>]

TriplesOf(o) == Triples(o.onset, o.duration, o.description)

EqualLengths(o) ==
    /\ Len(o.onset) = Len(o.duration)
    /\ Len(o.duration) = Len(o.description)

(* s, sorted by its first components, entries with equal first components *)
(* kept in the order they have in s                                       *)
RECURSIVE StableSorted(_)
StableSorted(s) ==
    IF s = <<>> THEN <<>>
    ELSE LET rest == StableSorted(SubSeq(s, 1, Len(s) - 1))
             x    == s[Len(s)]
             k    == Cardinality({ i \in DOMAIN rest : Le(rest[i][1], x[1]) })
         IN  SubSeq(rest, 1, k) \o <<x>> \o SubSeq(rest, k + 1, Len(rest))

Firsts(s) == [i \in DOMAIN s |-> s[i][1]]

(* The samples of the segments before the last one *)
PriorSamples(last_samps) ==
    LET partial[i \in 0..Len(last_samps)] ==
            IF i = 0 THEN 0 ELSE partial[i - 1] + last_samps[i]
    IN  IF last_samps = <<>> THEN 0 ELSE partial[Len(last_samps) - 1]

(* The onset x, moved by the duration of n samples at sfreq samples a second *)
Later(x, n, sfreq) == Float(x[2] + (n * TicksPerSec) \div sfreq)

CombineCall == last.op = "combine"

BothPresent == CombineCall /\ last.a # 0 /\ last.b # 0

ArgA == heap[last.a]

ArgB == heap[last.b]

Merged == heap[last.ret]

Numeric(ref) == ref = 0 \/ AllFloats(heap[ref].onset)

----------------------------------------------------------------------------
(* Claims about _combine_annotations and the instances that exist *)

(* C1: when exactly one of a, b is None, the call returns the other set,   *)
(* the very instance it was given, whatever last_samps and sfreq are.      *)
C1_OneAbsentReturnsOther ==
    (CombineCall /\ ((last.a = 0) # (last.b = 0))) =>
        /\ last.kind = "ok"
        /\ last.ret = (IF last.a = 0 THEN last.b ELSE last.a)

(* C2: when both sets are present and b.orig_time is set, the call returns *)
(* a new set whose onsets are the sorted concatenation of a.onset and      *)
(* b.onset, b's onsets unshifted, each with its duration and description.  *)
C2_AbsoluteOnsetsUnshifted ==
    (BothPresent /\ ArgB.orig_time # None /\ Numeric(last.a) /\ Numeric(last.b)) =>
        /\ last.kind = "ok"
        /\ last.fresh
        /\ Merged.onset = Firsts(StableSorted(TriplesOf(ArgA) \o TriplesOf(ArgB)))
        /\ SameBag(TriplesOf(Merged), TriplesOf(ArgA) \o TriplesOf(ArgB))

(* C3: when both sets are present and b.orig_time is None, the call        *)
(* returns the set constructed from a's entries followed by b's entries,   *)
(* b's onsets moved later by sum(last_samps[:-1]) / sfreq seconds: its     *)
(* onsets are those onsets sorted, each entry keeps its duration and       *)
(* description, and its orig_time is a's.                                  *)
C3_RelativeOnsetsShifted ==
    (BothPresent /\ ArgB.orig_time = None /\ Numeric(last.a) /\ Numeric(last.b)) =>
        /\ last.kind = "ok"
        /\ last.fresh
        /\ LET n == PriorSamples(last.last_samps)
               expected ==
                   TriplesOf(ArgA) \o
                   [i \in DOMAIN ArgB.onset |->
                       <<Later(ArgB.onset[i], n, last.sfreq),
                         ArgB.duration[i], ArgB.description[i]>>]
           IN  /\ Merged.onset = Firsts(StableSorted(expected))
               /\ SameBag(TriplesOf(Merged), expected)
               /\ Merged.orig_time = ArgA.orig_time

C3_Witness ==
    /\ BothPresent /\ ArgB.orig_time = None /\ last.fresh
    /\ Len(last.last_samps) = 2
    /\ last.sfreq = 2
    /\ ArgA.onset = <<Secs(1)>> /\ ArgB.onset = <<Secs(0), Secs(1)>>
    /\ Merged.description = <<"y", "x", "x">>

(* C5: the onsets of every instance that exists, constructed directly or   *)
(* returned by a merge, are in non-decreasing order.                       *)
C5_OnsetsNonDecreasing ==
    \A i \in DOMAIN heap : NonDecreasing(heap[i].onset)

C5_Witness ==
    /\ BothPresent /\ last.fresh
    /\ Len(ArgA.onset) > 0 /\ Len(ArgB.onset) > 0
    /\ ArgB.orig_time = None
    /\ ~Le(ArgA.onset[Len(ArgA.onset)],
           Later(ArgB.onset[1], PriorSamples(last.last_samps), last.sfreq))
    /\ NonDecreasing(Merged.onset)

(* C6: onset, duration and description have one length in every instance   *)
(* that exists, and a merge of two present sets has as many entries as the *)
(* two sets together.                                                      *)
C6_EqualLengths ==
    /\ \A i \in DOMAIN heap : EqualLengths(heap[i])
    /\ (BothPresent /\ last.fresh) =>
           Len(Merged.onset) = Len(ArgA.onset) + Len(ArgB.onset)

C6_Witness ==
    /\ BothPresent /\ last.fresh
    /\ Len(ArgA.onset) = 2 /\ Len(ArgB.onset) = 1
    /\ Len(Merged.description) = 3

(* C8: a call on validly constructed sets either returns or fails with the *)
(* ValueError of the constructor's validation, never in another way.       *)
C8_OnlyValidationErrors ==
    (CombineCall /\ Numeric(last.a) /\ Numeric(last.b)) =>
        last.kind \in {"ok", "ValueError"}

(* C9: every instance holds the field values it was constructed with,      *)
(* whatever calls were made since, and the set a merge returns is an       *)
(* instance other than its arguments.                                      *)
C9_ArgumentsUnchanged ==
    /\ heap = born
    /\ (BothPresent /\ last.kind = "ok") =>
           /\ last.ret = Len(heap)
           /\ last.ret \notin {last.a, last.b}

C9_Witness ==
    /\ BothPresent /\ last.fresh
    /\ last.a # last.b
    /\ Len(ArgB.onset) > 0
    /\ PriorSamples(last.last_samps) > 0
    /\ ArgB.orig_time = None
    /\ ArgB = born[last.b]

(* C10: when a and b are both None the call returns None, whatever         *)
(* last_samps and sfreq are.                                               *)
C10_BothAbsentReturnsNone ==
    (CombineCall /\ last.a = 0 /\ last.b = 0) =>
        /\ last.kind = "ok"
        /\ last.ret = 0
        /\ ~last.fresh

C10_Witness ==
    /\ CombineCall /\ last.a = 0 /\ last.b = 0
    /\ last.ret = 0
    /\ Len(heap) > 0

----------------------------------------------------------------------------
(* Claims about the constructor *)

Returned == last.op = "ret"

Constructed == last.ret[1]

InputTriples == Triples(last.onset.data, last.duration.data, last.description.data)

(* C4: construction raises ValueError exactly when onset is not            *)
(* one-dimensional, duration is not one-dimensional or the three lengths   *)
(* are not all equal; then no instance comes into being, and otherwise the *)
(* construction succeeds.                                                  *)
C4_ValidationError ==
    Returned =>
        LET invalid ==
                \/ last.onset.ndim # 1
                \/ last.duration.ndim # 1
                \/ Len(last.onset.data) # Len(last.duration.data)
                \/ Len(last.onset.data) # Len(last.description.data)
        IN  /\ last.kind = (IF invalid THEN "ValueError" ELSE "ok")
            /\ Len(last.ret) = (IF invalid THEN 0 ELSE 1)

C4_Witness ==
    /\ Returned
    /\ last.onset.ndim = 1 /\ last.duration.ndim = 1
    /\ Len(last.onset.data) = 2 /\ Len(last.duration.data) = 2
    /\ Len(last.description.data) = 1
    /\ last.kind = "ValueError"
    /\ last.ret = <<>>

====
